---------------------------- MODULE Spec2Model ----------------------------
(***************************************************************************)
(* A model of caddy-x402pay: the seller interceptor (x402seller), the      *)
(* buyer interceptor (x402buyer) and the facilitator app they share.       *)
(*                                                                         *)
(* SpecSeller runs NumReqs concurrent requests through                     *)
(* X402SellerMiddleware.ServeHTTP against a facilitator whose Verify and   *)
(* Settle answers are chosen by the environment.  SpecBuyer runs one       *)
(* request through X402BuyerMiddleware.ServeHTTP in front of a downstream  *)
(* handler whose writes are chosen by the environment.                     *)
(*                                                                         *)
(* Strings that the code parses as numbers are sequences of one-character  *)
(* strings; JSON texts are either garbage or an object, a record of the    *)
(* fields the text holds.  Writes to the caller's connection are assumed   *)
(* to succeed.                                                             *)
(***************************************************************************)
EXTENDS Integers, Sequences, FiniteSets, TLC

(***************************************************************************)
(* Bounds of the model.                                                    *)
(***************************************************************************)
\* Number of concurrent seller requests.
NumReqs == 2
\* Number of calls (header, status, body) a downstream handler of the buyer
\* makes on its response writer in one invocation.
MaxDownOps == 2
\* Number of calls of createPaymentPayload that one middleware makes for its
\* concurrent requests.
MaxBuilds == 2
\* Number of Caddyfiles the process adapts: the first, and reloads.
MaxLoads == 2

(***************************************************************************)
(* Program constants.                                                      *)
(***************************************************************************)
StatusOK == 200
StatusBadRequest == 400
StatusPaymentRequired == 402
StatusInternalServerError == 500

\* A header a map does not hold.
Absent == "<absent>"
\* An error is its message, a sequence of strings; the nil error is empty.
NoErr == <<>>
\* A value not yet produced.
None == [kind |-> "none"]
Contains(msg, s) == \E i \in 1..Len(msg) : msg[i] = s

(***************************************************************************)
(* Strings of characters and strconv.ParseInt(s, 10, 64).                  *)
(***************************************************************************)
Digits == {"0", "1", "2", "3", "4", "5", "6", "7", "8", "9"}

DigitVal(c) ==
  CASE c = "0" -> 0 [] c = "1" -> 1 [] c = "2" -> 2 [] c = "3" -> 3
    [] c = "4" -> 4 [] c = "5" -> 5 [] c = "6" -> 6 [] c = "7" -> 7
    [] c = "8" -> 8 [] c = "9" -> 9

RECURSIVE DigitsValue(_, _)
\* The value of a sequence of digits, most significant first, after acc.
DigitsValue(s, acc) ==
  IF s = <<>> THEN acc ELSE DigitsValue(Tail(s), acc * 10 + DigitVal(Head(s)))

\* strconv.ParseInt(s, 10, 64): an optional sign, then one or more digits.
\* The strings of the model are short, so the value never leaves int64.
ParseInt(s) ==
  IF s = <<>> THEN [err |-> TRUE, val |-> 0]
  ELSE LET signed == Head(s) \in {"+", "-"}
           ds == IF signed THEN Tail(s) ELSE s
       IN IF ds = <<>> \/ \E i \in 1..Len(ds) : ds[i] \notin Digits
          THEN [err |-> TRUE, val |-> 0]
          ELSE [err |-> FALSE,
                val |-> IF Head(s) = "-" THEN 0 - DigitsValue(ds, 0)
                        ELSE DigitsValue(ds, 0)]

\* The amount strings of the model.
Str0 == <<"0">>
StrNeg1 == <<"-", "1">>
StrX == <<"x">>
Str500000 == <<"5", "0", "0", "0", "0", "0">>
Str1000000 == <<"1", "0", "0", "0", "0", "0", "0">>
Str1000001 == <<"1", "0", "0", "0", "0", "0", "1">>

(***************************************************************************)
(* JSON texts.                                                             *)
(***************************************************************************)
\* json.Marshal / json.NewEncoder(w).Encode of a struct or map: the text of
\* an object with the value's fields.
EncodeJSON(obj) == [kind |-> "json", obj |-> obj]
\* A text that is not JSON.
Garbage == [kind |-> "garbage"]
\* The empty header value.
Empty == [kind |-> "empty"]

(***************************************************************************)
(* http.ResponseWriter: the header map, and what was sent to the caller.   *)
(* The first WriteHeader sends the status with a snapshot of the header    *)
(* map; a Write before any WriteHeader sends StatusOK first.               *)
(***************************************************************************)
HeaderKeys == {"Content-Type", "X-Payment-Required", "Server", "X-Down"}
EmptyHdr == [k \in HeaderKeys |-> Absent]
ServerHdr == [EmptyHdr EXCEPT !["Server"] = "Caddy"]

NewWriter(h) == [hdr |-> h, status |-> 0, sentHdr |-> EmptyHdr, body |-> <<>>]

WSetHeader(w, k, v) == [w EXCEPT !.hdr[k] = v]
WDelHeader(w, k) == [w EXCEPT !.hdr[k] = Absent]
WWriteHeader(w, s) ==
  IF w.status = 0 THEN [w EXCEPT !.status = s, !.sentHdr = w.hdr] ELSE w
\* data is a sequence of chunks; the bytes sent are their concatenation.
WWrite(w, data) ==
  LET w1 == WWriteHeader(w, StatusOK) IN [w1 EXCEPT !.body = w1.body \o data]

\* What the caller has received from a writer.
Received(w) == [status |-> w.status, headers |-> w.sentHdr, body |-> w.body]
Untouched(w, h) == w = NewWriter(h)

FieldOr(obj, f, default) == IF f \in DOMAIN obj THEN obj[f] ELSE default

(***************************************************************************)
(* State.                                                                  *)
(***************************************************************************)
VARIABLES
  \* X402FacilitatorApp
  facilitator,   \* the app's facilitator field: NilFac until Start stores it
  appState,      \* "off", "provisioned", "starting", "started", "failed", "stopped"
  \* X402SellerMiddleware
  sellerCfg,     \* Scheme, Network, Resource, Description, MaxAmountRequired, PayTo
  spc,           \* per request: "off", "idle", "serving", "verifying", "settling",
                 \* "forwarding", "done"
  sreq,          \* per request: the inbound request
  sw,            \* per request: its response writer
  sfac,          \* per request: facilitatorInstance, what GetFacilitator returned
  sverifyReq,    \* per request: the VerifyRequest built by processPayment
  strace,        \* per request: the calls made, in order, each with its argument
  sverify,       \* per request: Verify's answer
  ssettle,       \* per request: Settle's answer
  sret,          \* per request: what ServeHTTP returned
  \* X402BuyerMiddleware
  buyerCfg,      \* PrivateKeyHex, MaxAmountPay, MaxRetries and, once
                 \* provisioned, privateKey and parsedMaxAmountPay
  bpc,           \* "off", "unprovisioned", "failed", "idle", "first",
                 \* "retry", "done"
  breq,          \* the inbound request r, its body stream where it stands
  bw0,           \* the real response writer as the handler received it
  bw,            \* the real response writer
  rec,           \* the responseCapture of the first downstream call
  bdown,         \* what the running (or last) downstream invocation did to
                 \* its response writer
  bcalls,        \* the requests the downstream was invoked with, in order
  bnextErr,      \* the error the first downstream call returned
  bpayloads,     \* the payment payloads built, in order
  bret,          \* what ServeHTTP returned
  built,         \* the calls of createPaymentPayload: the time, the
                 \* requirements, and what it returned
  \* caddyfile.go
  globalChainNetworks,  \* the package variable: the names appended so far
  lpc,                  \* "off", "idle", "adapting"
  caddyfile,            \* the Caddyfile being adapted, or adapted last: its
                        \* global options in the order they are declared
  parsed,               \* how many of them have been parsed
  appChainNetworks,     \* app.ChainNetworks as parseX402Facilitator left it
  served,               \* the app that is running, None before any runs
  loads                 \* the number of Caddyfiles adapted

sellerVars == <<facilitator, appState, sellerCfg, spc, sreq, sw, sfac, sverifyReq,
                strace, sverify, ssettle, sret>>

buyerVars == <<buyerCfg, bpc, breq, bw0, bw, rec, bdown, bcalls, bnextErr,
               bpayloads, bret, built>>

loadVars == <<globalChainNetworks, lpc, caddyfile, parsed, appChainNetworks,
              served, loads>>

vars == <<sellerVars, buyerVars, loadVars>>

SReqs == 1..NumReqs

(***************************************************************************)
(* caddyfile.go: the global options chain_network and x402.facilitator.    *)
(* The adapter parses the global options of a Caddyfile in the order they  *)
(* are declared; the process adapts a Caddyfile at startup and on every    *)
(* reload it is given as a Caddyfile.                                      *)
(***************************************************************************)
\* No Caddyfile is adapted in this run.
LoadOff ==
  /\ globalChainNetworks = <<>>
  /\ lpc = "off"
  /\ caddyfile = <<>>
  /\ parsed = 0
  /\ appChainNetworks = None
  /\ served = None
  /\ loads = 0

ChainNetworkOption(name) == [option |-> "chain_network", name |-> name]
FacilitatorOption == [option |-> "x402.facilitator", name |-> ""]

\* The Caddyfiles: one network, two networks, the facilitator declared first.
Caddyfiles ==
  {<<ChainNetworkOption("localhost"), FacilitatorOption>>,
   <<ChainNetworkOption("mainnet"), FacilitatorOption>>,
   <<ChainNetworkOption("localhost"), ChainNetworkOption("mainnet"),
     FacilitatorOption>>,
   <<FacilitatorOption, ChainNetworkOption("localhost")>>,
   <<ChainNetworkOption("mainnet"), FacilitatorOption,
     ChainNetworkOption("localhost")>>}

\* The adapter starts on a Caddyfile, at startup or while serving.
BeginAdapt(c) ==
  /\ lpc = "idle"
  /\ loads < MaxLoads
  /\ lpc' = "adapting"
  /\ caddyfile' = c
  /\ parsed' = 0
  /\ appChainNetworks' = None
  /\ loads' = loads + 1
  /\ UNCHANGED <<globalChainNetworks, served, sellerVars, buyerVars>>

\* The facilitator app that is running, with the ChainNetworks it was given.
ServingApp(chainNetworks) == [kind |-> "app", ChainNetworks |-> chainNetworks]

\* parseChainNetworkGlobal: the network is appended to the package variable.
parseChainNetworkGlobal ==
  /\ lpc = "adapting"
  /\ parsed < Len(caddyfile)
  /\ caddyfile[parsed + 1].option = "chain_network"
  /\ globalChainNetworks' = Append(globalChainNetworks, caddyfile[parsed + 1].name)
  /\ parsed' = parsed + 1
  /\ UNCHANGED <<lpc, caddyfile, appChainNetworks, served, loads, sellerVars,
                 buyerVars>>

\* parseX402Facilitator: the app gets a copy of the package variable as it
\* stands.
parseX402Facilitator ==
  /\ lpc = "adapting"
  /\ parsed < Len(caddyfile)
  /\ caddyfile[parsed + 1].option = "x402.facilitator"
  /\ appChainNetworks' = globalChainNetworks
  /\ parsed' = parsed + 1
  /\ UNCHANGED <<globalChainNetworks, lpc, caddyfile, served, loads, sellerVars,
                 buyerVars>>

\* X402FacilitatorApp.Validate, the part about the networks.
ValidateChainNetworks(chainNetworks) ==
  IF Len(chainNetworks) = 0
    THEN <<"at least one chain_network is required">>
    ELSE NoErr

\* The Caddyfile is adapted: the new app runs if it validates, otherwise the
\* load fails and what ran before keeps running.
FinishAdapt ==
  /\ lpc = "adapting"
  /\ parsed = Len(caddyfile)
  /\ lpc' = "idle"
  /\ served' = IF ValidateChainNetworks(appChainNetworks) = NoErr
                 THEN ServingApp(appChainNetworks)
                 ELSE served
  /\ UNCHANGED <<globalChainNetworks, caddyfile, parsed, appChainNetworks, loads,
                 sellerVars, buyerVars>>

(***************************************************************************)
(* X402FacilitatorApp.                                                     *)
(***************************************************************************)
NilFac == [kind |-> "nil"]
\* The field read while m.facilitator = f is storing it: Start and the
\* handlers share it without synchronisation, and a handler can read the
\* interface's type word without its data word. The value is not nil, and a
\* method called on it dereferences a nil receiver.
HalfStored == [kind |-> "half"]
\* The run-time panic of that dereference, which ends the handler.
Panic == <<"panic: invalid memory address or nil pointer dereference">>
\* The chain_network entries of the configuration.
ChainNetworks == {"localhost"}
\* initFacilitator: the networks map built from ChainNetworks, handed to
\* facilitator.New.
NewFacilitator(chainNetworks) == [kind |-> "facilitator", networks |-> chainNetworks]

\* GetFacilitator returns the field.
GetFacilitator == facilitator

\* Start: initFacilitator sets the field unless facilitator.New fails; the
\* store of the field has begun.
Start(newOk) ==
  /\ appState = "provisioned"
  /\ IF newOk
       THEN /\ facilitator' = HalfStored
            /\ appState' = "starting"
       ELSE /\ facilitator' = facilitator
            /\ appState' = "failed"
  /\ UNCHANGED <<sellerCfg, spc, sreq, sw, sfac, sverifyReq, strace, sverify,
                 ssettle, sret>>
  /\ UNCHANGED <<buyerVars, loadVars>>

\* The store of the field is complete, and Start returns.
StoreFacilitator ==
  /\ appState = "starting"
  /\ facilitator' = NewFacilitator(ChainNetworks)
  /\ appState' = "started"
  /\ UNCHANGED <<sellerCfg, spc, sreq, sw, sfac, sverifyReq, strace, sverify,
                 ssettle, sret>>
  /\ UNCHANGED <<buyerVars, loadVars>>

\* Stop closes the facilitator and leaves the field as it is.
Stop ==
  /\ appState = "started"
  /\ appState' = "stopped"
  /\ UNCHANGED <<facilitator, sellerCfg, spc, sreq, sw, sfac, sverifyReq, strace,
                 sverify, ssettle, sret>>
  /\ UNCHANGED <<buyerVars, loadVars>>

(***************************************************************************)
(* The facilitator library's CreatePaymentRequirements, from its contract: *)
(* it fails if the network is not a configured chain network or the amount *)
(* is not a non-negative integer string.                                   *)
(***************************************************************************)
ZeroRequirements ==
  [scheme |-> "", network |-> "", resource |-> "", description |-> "",
   payTo |-> "", maxAmountRequired |-> <<>>]

CreatePaymentRequirements(fac, resource, description, network, payTo, amount) ==
  IF fac = HalfStored THEN [err |-> Panic, req |-> ZeroRequirements]
  ELSE IF network \notin fac.networks
    THEN [err |-> <<"unsupported network: ", network>>, req |-> ZeroRequirements]
  ELSE IF ParseInt(amount).err \/ ParseInt(amount).val < 0
    THEN [err |-> <<"invalid max amount required">>, req |-> ZeroRequirements]
  ELSE [err |-> NoErr,
        req |-> [scheme |-> "exact", network |-> network, resource |-> resource,
                 description |-> description, payTo |-> payTo,
                 maxAmountRequired |-> amount]]

(***************************************************************************)
(* X402SellerMiddleware.                                                   *)
(***************************************************************************)
\* Validate: every field but description is required.
Validate(m) ==
  IF m.Scheme = "" THEN <<"scheme is required">>
  ELSE IF m.Network = "" THEN <<"network is required">>
  ELSE IF m.Resource = "" THEN <<"resource is required">>
  ELSE IF m.PayTo = "" THEN <<"pay_to is required">>
  ELSE IF m.MaxAmountRequired = <<>> THEN <<"max_amount_required is required">>
  ELSE NoErr

\* A slip: the code field left zero.
ErrorResponseWithoutCode(error, message, code) ==
  [error |-> error, message |-> message, code |-> 0]

\* types.ErrorResponse
ErrorResponse(error, message, code) ==
  [error |-> error, message |-> message, code |-> code]

\* returnPaymentRequired: the challenge, or an error with nothing written.
returnPaymentRequired(w, m) ==
  LET facilitatorInstance == GetFacilitator
  IN IF facilitatorInstance = NilFac
       THEN [err |-> <<"facilitator is not initialized">>, w |-> w]
     ELSE LET cr == CreatePaymentRequirements(facilitatorInstance, m.Resource,
                      m.Description, m.Network, m.PayTo, m.MaxAmountRequired)
          IN IF cr.err = Panic THEN [err |-> Panic, w |-> w]
             ELSE IF cr.err # NoErr
               THEN [err |-> <<"create payment requirements failed: ">> \o cr.err,
                     w |-> w]
             ELSE LET w1 == WSetHeader(w, "X-Payment-Required", "true")
                      w2 == WSetHeader(w1, "Content-Type", "application/json")
                      w3 == WWriteHeader(w2, StatusPaymentRequired)
                  IN [err |-> NoErr,
                      w |-> WWrite(w3, <<EncodeJSON(
                              [error |-> "payment_required",
                               message |-> <<"Payment is required to access this resource">>,
                               code |-> StatusPaymentRequired,
                               paymentRequirements |-> cr.req])>>)]

\* ServeHTTP, the answer to a processPayment error.
RejectPayment(w, err) ==
  LET w1 == WSetHeader(w, "Content-Type", "application/json")
      w2 == WWriteHeader(w1, StatusPaymentRequired)
  IN WWrite(w2, <<EncodeJSON(ErrorResponse("payment_failed", err,
                                            StatusPaymentRequired))>>)

\* A slip: the failure to build the challenge answered like a failed payment.
ServeNoPaymentAsRejection(w, m) ==
  LET r == returnPaymentRequired(w, m)
  IN IF r.err # NoErr THEN RejectPayment(r.w, r.err) ELSE r.w

\* ServeHTTP, the branch of a request without X-Payment.
ServeNoPayment(w, m) ==
  LET r == returnPaymentRequired(w, m)
  IN IF r.err # NoErr
       THEN LET w1 == WSetHeader(r.w, "Content-Type", "application/json")
                w2 == WWriteHeader(w1, StatusInternalServerError)
            IN WWrite(w2, <<EncodeJSON(ErrorResponse("payment_failed", r.err,
                                                      StatusInternalServerError))>>)
       ELSE r.w

\* json.Unmarshal into types.PaymentPayload: a field the text lacks is zero.
ZeroPayload ==
  [scheme |-> "", network |-> "", payer |-> "", nonce |-> <<>>,
   validAfter |-> 0, validBefore |-> 0, signature |-> ""]

\* A slip: the decoder's error dropped.
UnmarshalPayloadLenient(text) ==
  [err |-> NoErr,
   payload |-> IF text.kind # "json" THEN ZeroPayload
               ELSE [f \in DOMAIN ZeroPayload |->
                       FieldOr(text.obj, f, ZeroPayload[f])]]

UnmarshalPayload(text) ==
  IF text.kind # "json"
    THEN [err |-> <<"invalid character">>, payload |-> ZeroPayload]
    ELSE [err |-> NoErr,
          payload |-> [f \in DOMAIN ZeroPayload |->
                         FieldOr(text.obj, f, ZeroPayload[f])]]

\* A slip: the network left out of the comparison.
SchemeOnlyMismatch(m, payload) == payload.scheme # m.Scheme

\* processPayment's guard before Verify.
SchemeNetworkMismatch(m, payload) ==
  payload.scheme # m.Scheme \/ payload.network # m.Network

\* processPayment up to its call of Verify: the error it returns, or the
\* VerifyRequest it hands to Verify.
PrepareVerify(m, paymentHeader) ==
  LET facilitatorInstance == GetFacilitator
      NoReq == [PaymentPayload |-> ZeroPayload,
                PaymentRequirements |-> ZeroRequirements]
  IN IF facilitatorInstance = NilFac
       THEN [err |-> <<"facilitator is not initialized">>, req |-> NoReq]
     ELSE LET d == UnmarshalPayload(paymentHeader)
          IN IF d.err # NoErr
               THEN [err |-> <<"failed to parse X-Payment header: ">> \o d.err,
                     req |-> NoReq]
             ELSE IF SchemeNetworkMismatch(m, d.payload)
               THEN [err |-> <<"payment scheme/network mismatch: expected scheme=",
                               m.Scheme, " network=", m.Network, ", got scheme=",
                               d.payload.scheme, " network=", d.payload.network>>,
                     req |-> NoReq]
             ELSE LET cr == CreatePaymentRequirements(facilitatorInstance,
                              m.Resource, m.Description, m.Network, m.PayTo,
                              m.MaxAmountRequired)
                  IN IF cr.err = Panic THEN [err |-> Panic, req |-> NoReq]
                     ELSE IF cr.err # NoErr
                       THEN [err |-> <<"create payment requirements failed: ">>
                                       \o cr.err,
                             req |-> NoReq]
                       ELSE [err |-> NoErr,
                             req |-> [PaymentPayload |-> d.payload,
                                      PaymentRequirements |-> cr.req]]

\* A slip: IsValid not looked at.
VerifyErrorIgnoringValidity(resp) ==
  IF resp.err # NoErr THEN <<"payment verification failed: ">> \o resp.err
  ELSE NoErr

\* processPayment after Verify returned: the error it returns, NoErr to go on
\* to Settle.
VerifyError(resp) ==
  IF resp.err # NoErr THEN <<"payment verification failed: ">> \o resp.err
  ELSE IF ~resp.IsValid THEN <<"payment is invalid: ", resp.InvalidReason>>
  ELSE NoErr

\* A slip: Success not looked at.
SettleErrorIgnoringSuccess(resp) ==
  IF resp.err # NoErr THEN <<"payment settlement failed: ">> \o resp.err
  ELSE NoErr

\* A slip: the facilitator's reason left out of the message.
SettleErrorWithoutReason(resp) ==
  IF resp.err # NoErr THEN <<"payment settlement failed: ">> \o resp.err
  ELSE IF ~resp.Success THEN <<"payment settlement failed">>
  ELSE NoErr

\* processPayment after Settle returned: the error it returns, NoErr on success.
SettleError(resp) ==
  IF resp.err # NoErr THEN <<"payment settlement failed: ">> \o resp.err
  ELSE IF ~resp.Success THEN <<"payment settlement failed: ", resp.ErrorReason>>
  ELSE NoErr

(***************************************************************************)
(* The seller's environment: requests, the facilitator's answers, the      *)
(* downstream handler.                                                     *)
(***************************************************************************)
GoodPayload ==
  [scheme |-> "exact", network |-> "localhost", payer |-> "0xBuyer",
   nonce |-> <<"n1">>, validAfter |-> 0, validBefore |-> 300,
   signature |-> "sig"]

\* The values of the X-Payment header: none, not JSON, a payload for the
\* configured network, one for another network, one of another scheme, and
\* an object without a network.
PaymentHeaders ==
  {Empty, Garbage, EncodeJSON(GoodPayload),
   EncodeJSON([GoodPayload EXCEPT !.network = "mainnet"]),
   EncodeJSON([GoodPayload EXCEPT !.scheme = "upto"]),
   EncodeJSON([scheme |-> "exact"])}

VerifyResponses ==
  {[err |-> <<"rpc unavailable">>, IsValid |-> FALSE, InvalidReason |-> ""],
   [err |-> NoErr, IsValid |-> TRUE, InvalidReason |-> ""],
   [err |-> NoErr, IsValid |-> FALSE, InvalidReason |-> "invalid_signature"]}

SettleResponses ==
  {[err |-> <<"rpc unavailable">>, Success |-> FALSE, ErrorReason |-> "",
    Payer |-> "", Transaction |-> ""],
   [err |-> NoErr, Success |-> TRUE, ErrorReason |-> "",
    Payer |-> "0xBuyer", Transaction |-> "0xTx"],
   [err |-> NoErr, Success |-> FALSE, ErrorReason |-> "insufficient_funds",
    Payer |-> "0xBuyer", Transaction |-> ""]}

\* A body that is no JSON object.
RawOK == [kind |-> "raw", data |-> "ok"]

\* What the handler behind the seller writes.
DownstreamResponses ==
  {[status |-> StatusOK, body |-> <<RawOK>>],
   [status |-> StatusPaymentRequired, body |-> <<Garbage>>]}

DownstreamErrors == {NoErr, <<"handler failed">>}

\* The seller configurations a Caddyfile can give.
SellerConfigs ==
  [Scheme : {"exact"}, Network : {"", "localhost", "mainnet"},
   Resource : {"premium-data-api"}, Description : {""},
   MaxAmountRequired : {<<>>, Str1000000, StrX}, PayTo : {"0xABC"}]

NotReturned == [returned |-> FALSE, err |-> NoErr]
Returned(err) == [returned |-> TRUE, err |-> err]
Call(name, arg) == [call |-> name, arg |-> arg]

(***************************************************************************)
(* X402SellerMiddleware.ServeHTTP, one request r.                          *)
(***************************************************************************)
\* A request arrives, with or without an X-Payment header.
SellerArrive(r, paymentHeader) ==
  /\ spc[r] = "idle"
  /\ spc' = [spc EXCEPT ![r] = "serving"]
  /\ sreq' = [sreq EXCEPT ![r] = [id |-> r, XPayment |-> paymentHeader]]
  /\ UNCHANGED <<facilitator, appState, sellerCfg, sw, sfac, sverifyReq, strace,
                 sverify, ssettle, sret>>
  /\ UNCHANGED <<buyerVars, loadVars>>

\* r.Header.Get("X-Payment")
HeaderGet(req) == req.XPayment

\* The handler panics: it calls CreatePaymentRequirements on a facilitator
\* read half stored.
Panics(m, paymentHeader) ==
  IF paymentHeader = Empty
    THEN returnPaymentRequired(NewWriter(EmptyHdr), m).err = Panic
    ELSE PrepareVerify(m, paymentHeader).err = Panic

\* ServeHTTP from its start to the challenge, to the rejection of a payment
\* that cannot be verified, or to processPayment's call of Verify. A panic
\* unwinds the handler: it returns nothing and the server, which recovers
\* the panic, closes the connection with nothing written.
SellerServe(r) ==
  /\ spc[r] = "serving"
  /\ LET paymentHeader == HeaderGet(sreq[r])
         pv == PrepareVerify(sellerCfg, paymentHeader)
     IN IF Panics(sellerCfg, paymentHeader)
          THEN /\ spc' = [spc EXCEPT ![r] = "panicked"]
               /\ UNCHANGED <<sw, sret, sverifyReq, strace>>
        ELSE IF paymentHeader = Empty
          THEN /\ sw' = [sw EXCEPT ![r] = ServeNoPayment(sw[r], sellerCfg)]
               /\ spc' = [spc EXCEPT ![r] = "done"]
               /\ sret' = [sret EXCEPT ![r] = Returned(NoErr)]
               /\ UNCHANGED <<sverifyReq, strace>>
        ELSE IF pv.err # NoErr
          THEN /\ sw' = [sw EXCEPT ![r] = RejectPayment(sw[r], pv.err)]
               /\ spc' = [spc EXCEPT ![r] = "done"]
               /\ sret' = [sret EXCEPT ![r] = Returned(NoErr)]
               /\ UNCHANGED <<sverifyReq, strace>>
        ELSE /\ sverifyReq' = [sverifyReq EXCEPT ![r] = pv.req]
             /\ strace' = [strace EXCEPT ![r] = Append(@, Call("verify", pv.req))]
             /\ spc' = [spc EXCEPT ![r] = "verifying"]
             /\ UNCHANGED <<sw, sret>>
  /\ sfac' = [sfac EXCEPT ![r] = GetFacilitator]
  /\ UNCHANGED <<facilitator, appState, sellerCfg, sreq, sverify, ssettle>>
  /\ UNCHANGED <<buyerVars, loadVars>>

\* A slip: Settle given requirements whose recipient is the payer.
SettleRequestToPayer(verifyReq) ==
  [verifyReq EXCEPT !.PaymentRequirements.payTo = "0xBuyer"]

\* The argument of Settle: &verifyReq, the one Verify was given.
SettleRequest(verifyReq) == verifyReq

\* Verify returns resp: processPayment fails, or calls Settle with the same
\* VerifyRequest.
SellerVerifyReturn(r, resp) ==
  /\ spc[r] = "verifying"
  /\ sverify' = [sverify EXCEPT ![r] = resp]
  /\ IF VerifyError(resp) # NoErr
       THEN /\ sw' = [sw EXCEPT ![r] = RejectPayment(sw[r], VerifyError(resp))]
            /\ spc' = [spc EXCEPT ![r] = "done"]
            /\ sret' = [sret EXCEPT ![r] = Returned(NoErr)]
            /\ UNCHANGED strace
       ELSE /\ strace' = [strace EXCEPT
                            ![r] = Append(@, Call("settle", SettleRequest(sverifyReq[r])))]
            /\ spc' = [spc EXCEPT ![r] = "settling"]
            /\ UNCHANGED <<sw, sret>>
  /\ UNCHANGED <<facilitator, appState, sellerCfg, sreq, sfac, sverifyReq, ssettle>>
  /\ UNCHANGED <<buyerVars, loadVars>>

\* A slip: the payment header stripped before forwarding.
ForwardedRequestStripped(req) == [req EXCEPT !.XPayment = Empty]

\* The request ServeHTTP hands to the next handler.
ForwardedRequest(req) == req

\* Settle returns resp: processPayment fails, or ServeHTTP calls the next
\* handler with the request and the writer it was given.
SellerSettleReturn(r, resp) ==
  /\ spc[r] = "settling"
  /\ ssettle' = [ssettle EXCEPT ![r] = resp]
  /\ IF SettleError(resp) # NoErr
       THEN /\ sw' = [sw EXCEPT ![r] = RejectPayment(sw[r], SettleError(resp))]
            /\ spc' = [spc EXCEPT ![r] = "done"]
            /\ sret' = [sret EXCEPT ![r] = Returned(NoErr)]
            /\ UNCHANGED strace
       ELSE /\ strace' = [strace EXCEPT
                            ![r] = Append(@, Call("next", ForwardedRequest(sreq[r])))]
            /\ spc' = [spc EXCEPT ![r] = "forwarding"]
            /\ UNCHANGED <<sw, sret>>
  /\ UNCHANGED <<facilitator, appState, sellerCfg, sreq, sfac, sverifyReq, sverify>>
  /\ UNCHANGED <<buyerVars, loadVars>>

\* The next handler writes its response and returns; ServeHTTP returns what
\* it returned.
SellerNextReturn(r, resp, err) ==
  /\ spc[r] = "forwarding"
  /\ sw' = [sw EXCEPT ![r] = WWrite(WWriteHeader(sw[r], resp.status), resp.body)]
  /\ spc' = [spc EXCEPT ![r] = "done"]
  /\ sret' = [sret EXCEPT ![r] = Returned(err)]
  /\ strace' = [strace EXCEPT
                  ![r] = Append(@, Call("nextReturned", [resp |-> resp, err |-> err]))]
  /\ UNCHANGED <<facilitator, appState, sellerCfg, sreq, sfac, sverifyReq,
                 sverify, ssettle>>
  /\ UNCHANGED <<buyerVars, loadVars>>

(***************************************************************************)
(* The seller's specification.                                             *)
(***************************************************************************)
BuyerOff ==
  /\ buyerCfg = None
  /\ bpc = "off"
  /\ breq = None
  /\ bw0 = NewWriter(EmptyHdr)
  /\ bw = NewWriter(EmptyHdr)
  /\ rec = None
  /\ bdown = <<>>
  /\ bcalls = <<>>
  /\ bnextErr = NoErr
  /\ bpayloads = <<>>
  /\ bret = NotReturned
  /\ built = <<>>

InitSeller ==
  /\ facilitator = NilFac
  /\ appState = "provisioned"
  /\ sellerCfg \in {m \in SellerConfigs : Validate(m) = NoErr}
  /\ spc = [r \in SReqs |-> "idle"]
  /\ sreq = [r \in SReqs |-> None]
  /\ sw = [r \in SReqs |-> NewWriter(EmptyHdr)]
  /\ sfac = [r \in SReqs |-> None]
  /\ sverifyReq = [r \in SReqs |-> None]
  /\ strace = [r \in SReqs |-> <<>>]
  /\ sverify = [r \in SReqs |-> None]
  /\ ssettle = [r \in SReqs |-> None]
  /\ sret = [r \in SReqs |-> NotReturned]
  /\ BuyerOff
  /\ LoadOff

NextSeller ==
  \/ \E newOk \in BOOLEAN : Start(newOk)
  \/ StoreFacilitator
  \/ Stop
  \/ \E r \in SReqs : \E h \in PaymentHeaders : SellerArrive(r, h)
  \/ \E r \in SReqs : SellerServe(r)
  \/ \E r \in SReqs : \E resp \in VerifyResponses : SellerVerifyReturn(r, resp)
  \/ \E r \in SReqs : \E resp \in SettleResponses : SellerSettleReturn(r, resp)
  \/ \E r \in SReqs : \E resp \in DownstreamResponses :
        \E err \in DownstreamErrors : SellerNextReturn(r, resp, err)

SpecSeller == InitSeller /\ [][NextSeller]_vars

(***************************************************************************)
(* Properties of the seller.                                               *)
(***************************************************************************)
\* The number of calls of name that request r has made.
Calls(r, name) ==
  Cardinality({i \in 1..Len(strace[r]) : strace[r][i].call = name})

VerifyValid(r) ==
  /\ sverify[r] # None
  /\ sverify[r].err = NoErr
  /\ sverify[r].IsValid

SettleSuccess(r) ==
  /\ ssettle[r] # None
  /\ ssettle[r].err = NoErr
  /\ ssettle[r].Success

\* The JSON object a response body holds, if it is one JSON text.
BodyObject(w) ==
  IF Len(w.body) = 1 /\ w.body[1].kind = "json" THEN w.body[1].obj ELSE None

\* The caller of r has received an error body of the given kind and code, and
\* the status is that code.
ErrorAnswer(w, error, code) ==
  /\ w.status = code
  /\ w.sentHdr["Content-Type"] = "application/json"
  /\ BodyObject(w) # None
  /\ DOMAIN BodyObject(w) = {"error", "message", "code"}
  /\ BodyObject(w).error = error
  /\ BodyObject(w).code = code

\* C1: per request, Settle is called at most once, only after Verify was
\* called and answered without error with IsValid; after an error or an
\* invalid answer of Verify, Settle is never called.
C1_SettleOnlyAfterValidVerify ==
  \A r \in SReqs :
    /\ Calls(r, "verify") <= 1
    /\ Calls(r, "settle") <= 1
    /\ \A i \in 1..Len(strace[r]) :
         strace[r][i].call = "settle" =>
           /\ \E j \in 1..(i - 1) : strace[r][j].call = "verify"
           /\ VerifyValid(r)
    /\ (sverify[r] # None /\ ~VerifyValid(r)) => Calls(r, "settle") = 0

\* Settle was called for one request after a valid Verify, and another
\* request ended after Verify rejected it.
C1_Witness ==
  \E r \in SReqs, q \in SReqs :
    /\ Calls(r, "settle") = 1 /\ VerifyValid(r)
    /\ spc[q] = "done" /\ sverify[q] # None /\ ~VerifyValid(q)

\* C2: the next handler is called for a request only after, in that request,
\* Verify answered valid and Settle then answered success; a request that
\* ended any other way never called it.
C2_ForwardOnlyAfterSettle ==
  \A r \in SReqs :
    /\ Calls(r, "next") <= 1
    /\ Calls(r, "next") = 1 =>
         /\ VerifyValid(r) /\ SettleSuccess(r)
         /\ Len(strace[r]) >= 3
         /\ strace[r][1].call = "verify"
         /\ strace[r][2].call = "settle"
         /\ strace[r][3].call = "next"
    /\ (spc[r] = "done" /\ ~(VerifyValid(r) /\ SettleSuccess(r))) =>
         Calls(r, "next") = 0

\* One request was forwarded, and another ended after Settle failed without
\* being forwarded.
C2_Witness ==
  \E r \in SReqs, q \in SReqs :
    /\ spc[r] = "done" /\ Calls(r, "next") = 1
    /\ spc[q] = "done" /\ VerifyValid(q) /\ ssettle[q] # None
    /\ ~SettleSuccess(q)

\* The 402 challenge: status, X-Payment-Required, and the body with the
\* requirements of the configuration.
ChallengeAnswer(w, m) ==
  /\ w.status = StatusPaymentRequired
  /\ w.sentHdr["X-Payment-Required"] = "true"
  /\ BodyObject(w) # None
  /\ BodyObject(w).error = "payment_required"
  /\ BodyObject(w).code = StatusPaymentRequired
  /\ BodyObject(w).paymentRequirements.payTo = m.PayTo

NoPaymentDone(r) == spc[r] = "done" /\ sreq[r].XPayment = Empty

\* C3, as claimed: every request without X-Payment is answered with the 402
\* challenge, and calls neither Verify, Settle nor the next handler.
C3_Original ==
  \A r \in SReqs :
    (NoPaymentDone(r) \/ (spc[r] = "panicked" /\ HeaderGet(sreq[r]) = Empty)) =>
      ChallengeAnswer(sw[r], sellerCfg) /\ strace[r] = <<>>

\* The requirements can be built from the configuration by the facilitator
\* instance the request obtained.
Buildable(fac, m) ==
  /\ fac # NilFac
  /\ CreatePaymentRequirements(fac, m.Resource, m.Description, m.Network,
                               m.PayTo, m.MaxAmountRequired).err = NoErr

\* What holds of the requests without X-Payment whose handler returned: none
\* calls Verify, Settle or the next handler; it is answered with the 402
\* challenge if the facilitator is initialized and builds the requirements,
\* and with status 500 and a payment_failed body, without
\* X-Payment-Required, otherwise. A handler that panicked on a facilitator
\* read half stored has not returned, and has answered nothing.
ChallengeOrServerError ==
  \A r \in SReqs :
    NoPaymentDone(r) =>
      /\ strace[r] = <<>>
      /\ sret[r] = Returned(NoErr)
      /\ IF Buildable(sfac[r], sellerCfg)
           THEN ChallengeAnswer(sw[r], sellerCfg)
           ELSE /\ ErrorAnswer(sw[r], "payment_failed", StatusInternalServerError)
                /\ sw[r].sentHdr["X-Payment-Required"] = Absent

\* A request without X-Payment got the challenge and another got status 500.
ChallengeAndServerError ==
  \E r \in SReqs, q \in SReqs :
    /\ NoPaymentDone(r) /\ sw[r].status = StatusPaymentRequired
    /\ NoPaymentDone(q) /\ sw[q].status = StatusInternalServerError

\* The request's handler obtained the facilitator and decoded the header into
\* a payload whose scheme or network is not the configured one.
Mismatch(r) ==
  /\ spc[r] = "done"
  /\ sfac[r] # NilFac
  /\ sreq[r].XPayment.kind = "json"
  /\ \/ FieldOr(sreq[r].XPayment.obj, "scheme", "") # sellerCfg.Scheme
     \/ FieldOr(sreq[r].XPayment.obj, "network", "") # sellerCfg.Network

\* C4: a decoded payload whose scheme or network differs from the configured
\* one is rejected with status 402 and a scheme/network-mismatch message,
\* and neither Verify nor Settle is called.
C4_MismatchRejectedLocally ==
  \A r \in SReqs :
    Mismatch(r) =>
      /\ ErrorAnswer(sw[r], "payment_failed", StatusPaymentRequired)
      /\ BodyObject(sw[r]).message[1]
           = "payment scheme/network mismatch: expected scheme="
      /\ strace[r] = <<>>

\* Both a payload of another network and one of another scheme were rejected.
C4_Witness ==
  \E r \in SReqs, q \in SReqs :
    /\ Mismatch(r) /\ FieldOr(sreq[r].XPayment.obj, "network", "") = "mainnet"
    /\ sellerCfg.Network = "localhost"
    /\ Mismatch(q) /\ FieldOr(sreq[q].XPayment.obj, "scheme", "") = "upto"

\* The request carries an X-Payment header that is not the JSON text of an
\* object.
Undecodable(r) == spc[r] = "done" /\ sreq[r].XPayment = Garbage

\* C5, as claimed: an X-Payment header that cannot be decoded is rejected
\* with status 400, without Verify, Settle or the next handler.
C5_Original ==
  \A r \in SReqs :
    Undecodable(r) => sw[r].status = StatusBadRequest /\ strace[r] = <<>>

\* C5, amended: an X-Payment header that cannot be decoded is rejected with
\* status 402 and a payment_failed body of code 402, whose message reports
\* the parse failure when the facilitator is initialized, without Verify,
\* Settle or the next handler.
C5_UndecodableRejected402 ==
  \A r \in SReqs :
    Undecodable(r) =>
      /\ ErrorAnswer(sw[r], "payment_failed", StatusPaymentRequired)
      /\ sfac[r] # NilFac =>
           BodyObject(sw[r]).message[1] = "failed to parse X-Payment header: "
      /\ strace[r] = <<>>
      /\ sret[r] = Returned(NoErr)

\* An undecodable header was rejected by a handler that had the facilitator.
C5_Witness ==
  \E r \in SReqs : Undecodable(r) /\ sfac[r] # NilFac

\* C6: when Verify answers invalid with a reason, or Settle answers failure
\* with a reason, the caller receives status 402 with a message containing
\* that reason, and neither Verify nor Settle is called again.
C6_RejectionReasonSurfaced ==
  \A r \in SReqs :
    /\ (sverify[r] # None /\ sverify[r].err = NoErr /\ ~sverify[r].IsValid) =>
         /\ spc[r] = "done"
         /\ ErrorAnswer(sw[r], "payment_failed", StatusPaymentRequired)
         /\ Contains(BodyObject(sw[r]).message, sverify[r].InvalidReason)
         /\ Calls(r, "verify") = 1 /\ Calls(r, "settle") = 0
         /\ Calls(r, "next") = 0
    /\ (ssettle[r] # None /\ ssettle[r].err = NoErr /\ ~ssettle[r].Success) =>
         /\ spc[r] = "done"
         /\ ErrorAnswer(sw[r], "payment_failed", StatusPaymentRequired)
         /\ Contains(BodyObject(sw[r]).message, ssettle[r].ErrorReason)
         /\ Calls(r, "verify") = 1 /\ Calls(r, "settle") = 1
         /\ Calls(r, "next") = 0

\* Verify rejected one request with a reason and Settle another.
C6_Witness ==
  \E r \in SReqs, q \in SReqs :
    /\ sverify[r] # None /\ sverify[r].InvalidReason = "invalid_signature"
    /\ ssettle[q] # None /\ ssettle[q].ErrorReason = "insufficient_funds"

\* C7: on the forwarded path the next handler is called exactly once, with
\* the inbound request and its X-Payment header; the seller has written
\* nothing when it calls it and writes nothing after, so the caller receives
\* the next handler's response and ServeHTTP returns what it returned.
C7_ForwardedUnchanged ==
  \A r \in SReqs :
    /\ spc[r] = "forwarding" =>
         /\ Calls(r, "next") = 1
         /\ strace[r][Len(strace[r])] = Call("next", sreq[r])
         /\ sreq[r].XPayment # Empty
         /\ Untouched(sw[r], EmptyHdr)
    /\ (spc[r] = "done" /\ VerifyValid(r) /\ SettleSuccess(r)) =>
         /\ Calls(r, "next") = 1
         /\ strace[r][3] = Call("next", sreq[r])
         /\ LET down == strace[r][4].arg
            IN /\ Received(sw[r]) = [status |-> down.resp.status,
                                     headers |-> EmptyHdr,
                                     body |-> down.resp.body]
               /\ sret[r] = Returned(down.err)

\* A forwarded request ended with the next handler's 200 response.
C7_Witness ==
  \E r \in SReqs :
    /\ spc[r] = "done" /\ Calls(r, "next") = 1
    /\ sw[r].status = StatusOK /\ sw[r].body = <<RawOK>>

(***************************************************************************)
(* X402BuyerMiddleware: configuration and Provision.                       *)
(***************************************************************************)
\* createPaymentPayload's numbers.
ValidDuration == 300
ValidAfterOffset == 600000

\* The keys crypto.HexToECDSA accepts.
ValidKeys == {"ab12"}

\* The buyer configurations a Caddyfile can give: max_amount_pay unset, a
\* cap, zero, a negative number, not a number; max_retries unset or set.
BuyerConfigs ==
  [PrivateKeyHex : {"", "zz", "ab12"},
   MaxAmountPay : {<<>>, Str500000, Str0, StrNeg1, StrX},
   MaxRetries : {0, 1, 3}]

\* Provision: the error it returns, and the middleware it leaves.
Provision(c) ==
  LET MaxAmountPay == IF c.MaxAmountPay = <<>> THEN Str1000000 ELSE c.MaxAmountPay
      maxAmount == ParseInt(MaxAmountPay)
  IN IF c.PrivateKeyHex = ""
       THEN [err |-> <<"buyer private key is indispensable">>, m |-> c]
     ELSE IF c.PrivateKeyHex \notin ValidKeys
       THEN [err |-> <<"invalid buyer private key: ">>, m |-> c]
     ELSE IF maxAmount.err
       THEN [err |-> <<"invalid max_amount_pay: ">>,
             m |-> [c EXCEPT !.MaxAmountPay = MaxAmountPay]]
     ELSE [err |-> NoErr,
           m |-> [PrivateKeyHex |-> c.PrivateKeyHex,
                  MaxAmountPay |-> MaxAmountPay,
                  MaxRetries |-> IF c.MaxRetries = 0 THEN 1 ELSE c.MaxRetries,
                  privateKey |-> c.PrivateKeyHex,
                  parsedMaxAmountPay |-> maxAmount.val]]

(***************************************************************************)
(* responseCapture.                                                        *)
(***************************************************************************)
\* &responseCapture{ResponseWriter: w, statusCode: http.StatusOK}
NewCapture ==
  [statusCode |-> StatusOK, body |-> <<>>, written |-> FALSE,
   headersNil |-> TRUE, headers |-> EmptyHdr]

\* Header: on first use, a copy of the underlying writer's headers.
CaptureHeader(r, w) ==
  IF r.headersNil THEN [r EXCEPT !.headersNil = FALSE, !.headers = w.hdr] ELSE r

\* WriteHeader: the first status is kept, nothing reaches the writer.
CaptureWriteHeader(r, statusCode) ==
  IF ~r.written THEN [r EXCEPT !.statusCode = statusCode, !.written = TRUE]
  ELSE r

\* Write: the body is buffered.
CaptureWrite(r, data) ==
  LET r1 == IF ~r.written
              THEN [r EXCEPT !.statusCode = StatusOK, !.written = TRUE]
              ELSE r
  IN [r1 EXCEPT !.body = r1.body \o data]

\* flushResponse: the captured headers that exist are copied over the
\* writer's, then the status and the body are written.
flushResponse(r, w) ==
  LET h == CaptureHeader(r, w).headers
      w1 == [w EXCEPT !.hdr = [k \in HeaderKeys |->
                                 IF h[k] # Absent THEN h[k] ELSE w.hdr[k]]]
      w2 == WWriteHeader(w1, r.statusCode)
  IN WWrite(w2, r.body)

\* writeError
writeError(w, status, errType, message) ==
  LET w1 == WSetHeader(w, "Content-Type", "application/json")
      w2 == WWriteHeader(w1, status)
  IN WWrite(w2, <<EncodeJSON(ErrorResponse(errType, message, status))>>)

(***************************************************************************)
(* The buyer's handling of a captured 402.                                 *)
(***************************************************************************)
\* json.Unmarshal of the captured body into paymentRequiredResponse: the
\* bytes must be one JSON text; fields the object lacks stay zero.
UnmarshalChallenge(body) ==
  IF Len(body) # 1 \/ body[1].kind # "json"
    THEN [err |-> <<"invalid character">>, PaymentRequirements |-> ZeroRequirements]
    ELSE LET pr == FieldOr(body[1].obj, "paymentRequirements", ZeroRequirements)
         IN [err |-> NoErr,
             PaymentRequirements |->
               [f \in DOMAIN ZeroRequirements |-> FieldOr(pr, f, ZeroRequirements[f])]]

\* A slip: the ceiling never applied.
CapSetNever(m) == FALSE

\* A slip: an amount equal to the ceiling refused as well.
ExceedsCapOrEqual(m, requiredAmount) == requiredAmount >= m.parsedMaxAmountPay

\* A maximum-pay ceiling is in force.
CapSet(m) == m.parsedMaxAmountPay > 0

\* The required amount is above the ceiling.
ExceedsCap(m, requiredAmount) == requiredAmount > m.parsedMaxAmountPay

\* crypto.PubkeyToAddress(m.privateKey.PublicKey).Hex()
WalletAddress(privateKey) == <<"address of ", privateKey>>

\* The nonce: "0x" and the Keccak-256 of "now-wallet-payTo", a function of
\* exactly these three.
Nonce(now, walletAddress, payTo) == <<"keccak256", now, walletAddress, payTo>>

\* A slip: the amount hashed into the nonce as well.
createPaymentPayloadNonceOfAmount(m, requirements, now, signOk) ==
  LET walletAddress == WalletAddress(m.privateKey)
  IN IF ~signOk
       THEN [err |-> <<"failed to sign payment">>, payload |-> ZeroPayload]
       ELSE [err |-> NoErr,
             payload |-> [scheme |-> requirements.scheme,
                          network |-> requirements.network,
                          payer |-> walletAddress,
                          nonce |-> Nonce(now, walletAddress, requirements.payTo)
                                      \o requirements.maxAmountRequired,
                          validAfter |-> now - ValidAfterOffset,
                          validBefore |-> now + ValidDuration,
                          signature |-> "sig"]]

\* A slip: the window opened at the second of the build, not 600000
\* seconds before it.
createPaymentPayloadNarrowWindow(m, requirements, now, signOk) ==
  IF ~signOk
    THEN [err |-> <<"failed to sign payment">>, payload |-> ZeroPayload]
    ELSE [err |-> NoErr,
          payload |-> [scheme |-> requirements.scheme,
                       network |-> requirements.network,
                       payer |-> WalletAddress(m.privateKey),
                       nonce |-> Nonce(now, WalletAddress(m.privateKey),
                                       requirements.payTo),
                       validAfter |-> now, validBefore |-> now + 300,
                       signature |-> "sig"]]

\* createPaymentPayload: the window, the nonce, and the payload that
\* client.CreatePaymentPayload signs (for chain 1337), unless signing fails.
createPaymentPayload(m, requirements, now, signOk) ==
  LET validAfter == now - ValidAfterOffset
      validBefore == now + ValidDuration
      walletAddress == WalletAddress(m.privateKey)
      nonce == Nonce(now, walletAddress, requirements.payTo)
  IN IF ~signOk
       THEN [err |-> <<"failed to sign payment">>, payload |-> ZeroPayload]
       ELSE [err |-> NoErr,
             payload |-> [scheme |-> requirements.scheme,
                          network |-> requirements.network,
                          payer |-> walletAddress, nonce |-> nonce,
                          validAfter |-> validAfter, validBefore |-> validBefore,
                          signature |-> "sig"]]

\* The methods http.NewRequestWithContext accepts.
ValidMethods == {"GET", "POST"}

\* The retry request: io.ReadAll of what is left of r.Body, a new request of
\* the same method and URL with these bytes, r's headers and X-Payment.
RetryRequest(r, paymentJSON) ==
  IF r.Method \notin ValidMethods
    THEN [err |-> <<"net/http: invalid method">>, req |-> r]
    ELSE [err |-> NoErr,
          req |-> [Method |-> r.Method, URL |-> r.URL, XPayment |-> paymentJSON,
                   Body |-> r.Body]]

\* ServeHTTP after the first downstream call returned err: what it does to
\* the real writer, and the retry it makes if it makes one.
Flushed(r, w) ==
  [kind |-> "flush", w |-> flushResponse(r, w), rec |-> CaptureHeader(r, w),
   payloads |-> <<>>, built |-> <<>>, retry |-> None]
Refused(r, w, payloads, calls) ==
  [kind |-> "error", w |-> w, rec |-> r, payloads |-> payloads,
   built |-> calls, retry |-> None]

\* A slip: the error of the first downstream call not looked at.
TransportFailedIgnored(err) == FALSE

\* err != nil after next.ServeHTTP(rec, r).
TransportFailed(err) == err # NoErr

BuyerDecide(m, r, w, req, err, now, signOk) ==
  IF TransportFailed(err) THEN Flushed(r, w)
  ELSE IF r.statusCode # StatusPaymentRequired THEN Flushed(r, w)
  ELSE LET paymentResp == UnmarshalChallenge(r.body)
           requirements == paymentResp.PaymentRequirements
           requiredAmount == ParseInt(requirements.maxAmountRequired)
           created == createPaymentPayload(m, requirements, now, signOk)
           call == [now |-> now, requirements |-> requirements,
                    err |-> created.err, payload |-> created.payload]
           retry == RetryRequest(req, EncodeJSON(created.payload))
       IN IF paymentResp.err # NoErr THEN Flushed(r, w)
          ELSE IF CapSet(m) /\ requiredAmount.err
            THEN Refused(r, writeError(w, StatusBadRequest,
                   "invalid_payment_requirements",
                   <<"Invalid max_amount_required in payment requirements">>),
                   <<>>, <<>>)
          ELSE IF CapSet(m) /\ ExceedsCap(m, requiredAmount.val)
            THEN Refused(r, writeError(w, StatusPaymentRequired,
                   "amount_limit_exceeded",
                   <<"Required payment amount ", ToString(requiredAmount.val),
                     " exceeds max allowed amount ",
                     ToString(m.parsedMaxAmountPay)>>),
                   <<>>, <<>>)
          ELSE IF created.err # NoErr
            THEN Refused(r, writeError(w, StatusInternalServerError,
                   "payment_creation_failed",
                   <<"Failed to create payment: ">> \o created.err),
                   <<>>, <<call>>)
          ELSE IF retry.err # NoErr
            THEN Refused(r, writeError(w, StatusInternalServerError,
                   "retry_request_failed",
                   <<"Failed to create retry request: ">> \o retry.err),
                   <<created.payload>>, <<call>>)
          ELSE [kind |-> "retry", w |-> w, rec |-> r,
                payloads |-> <<created.payload>>, built |-> <<call>>,
                retry |-> retry.req]

(***************************************************************************)
(* The buyer's environment.                                                *)
(***************************************************************************)
\* The unix second time.Now() gives.
Nows == {1700000000, 1700000001}

\* Inbound requests: no X-Payment header; a body stream not yet read.
BuyerRequests ==
  {[Method |-> "GET", URL |-> "/api", XPayment |-> Empty, Body |-> <<>>],
   [Method |-> "POST", URL |-> "/api", XPayment |-> Empty, Body |-> <<"a">>]}

\* The 402 body a seller answers a request without payment with.
ChallengeDoc(amount) ==
  EncodeJSON([error |-> "payment_required",
              message |-> <<"Payment is required to access this resource">>,
              code |-> StatusPaymentRequired,
              paymentRequirements |->
                [scheme |-> "exact", network |-> "localhost",
                 resource |-> "premium-data-api", description |-> "",
                 payTo |-> "0xABC", maxAmountRequired |-> amount]])

\* What the handler behind the buyer writes: bytes that are not JSON, a
\* seller's rejection, a challenge of the default ceiling, one of an amount
\* one above it, one with a malformed amount.
BuyerChunks ==
  {Garbage,
   EncodeJSON(ErrorResponse("payment_failed", <<"payment is invalid">>,
                            StatusPaymentRequired)),
   ChallengeDoc(Str1000000),
   ChallengeDoc(Str1000001),
   ChallengeDoc(StrX)}

BuyerStatuses == {StatusOK, StatusPaymentRequired}
BuyerNextErrors == {NoErr, <<"upstream unavailable">>}

(***************************************************************************)
(* X402BuyerMiddleware.ServeHTTP, one request.                             *)
(***************************************************************************)
BuyerProvision ==
  /\ bpc = "unprovisioned"
  /\ LET p == Provision(buyerCfg)
     IN /\ buyerCfg' = p.m
        /\ bpc' = IF p.err = NoErr THEN "idle" ELSE "failed"
  /\ UNCHANGED <<breq, bw0, bw, rec, bdown, bcalls, bnextErr, bpayloads, bret>>
  /\ UNCHANGED <<built, sellerVars, loadVars>>

\* ServeHTTP is entered: rec wraps w, and next.ServeHTTP(rec, r) is called.
\* The server has set the Server header on w before the handlers run.
BuyerArrive(req) ==
  /\ bpc = "idle"
  /\ bpc' = "first"
  /\ breq' = req
  /\ bw0' = NewWriter(ServerHdr)
  /\ bw' = NewWriter(ServerHdr)
  /\ rec' = NewCapture
  /\ bdown' = <<>>
  /\ bcalls' = <<req>>
  /\ bnextErr' = NoErr
  /\ bpayloads' = <<>>
  /\ bret' = NotReturned
  /\ UNCHANGED <<buyerCfg, built, sellerVars, loadVars>>

\* The downstream handler is running and may act on the writer it was given:
\* rec in the first call, w in the resubmission.
Running == bpc \in {"first", "retry"} /\ Len(bdown) < MaxDownOps

DownSetHeader ==
  /\ Running
  /\ bdown' = Append(bdown, Call("Header.Set", "X-Down"))
  /\ IF bpc = "first"
       THEN /\ rec' = [CaptureHeader(rec, bw) EXCEPT !.headers["X-Down"] = "1"]
            /\ bw' = bw
       ELSE /\ bw' = WSetHeader(bw, "X-Down", "1")
            /\ rec' = rec
  /\ UNCHANGED <<buyerCfg, bpc, breq, bw0, bcalls, bnextErr, bpayloads, bret>>
  /\ UNCHANGED <<built, sellerVars, loadVars>>

DownDelHeader ==
  /\ Running
  /\ bdown' = Append(bdown, Call("Header.Del", "Server"))
  /\ IF bpc = "first"
       THEN /\ rec' = [CaptureHeader(rec, bw) EXCEPT !.headers["Server"] = Absent]
            /\ bw' = bw
       ELSE /\ bw' = WDelHeader(bw, "Server")
            /\ rec' = rec
  /\ UNCHANGED <<buyerCfg, bpc, breq, bw0, bcalls, bnextErr, bpayloads, bret>>
  /\ UNCHANGED <<built, sellerVars, loadVars>>

\* A slip: the status of the first call passed on to the underlying writer.
DownWriteHeaderThrough(statusCode) ==
  /\ Running
  /\ bdown' = Append(bdown, Call("WriteHeader", statusCode))
  /\ bw' = WWriteHeader(bw, statusCode)
  /\ rec' = IF bpc = "first" THEN CaptureWriteHeader(rec, statusCode) ELSE rec
  /\ UNCHANGED <<buyerCfg, bpc, breq, bw0, bcalls, bnextErr, bpayloads, bret>>
  /\ UNCHANGED <<built, sellerVars, loadVars>>

DownWriteHeader(statusCode) ==
  /\ Running
  /\ bdown' = Append(bdown, Call("WriteHeader", statusCode))
  /\ IF bpc = "first"
       THEN /\ rec' = CaptureWriteHeader(rec, statusCode)
            /\ bw' = bw
       ELSE /\ bw' = WWriteHeader(bw, statusCode)
            /\ rec' = rec
  /\ UNCHANGED <<buyerCfg, bpc, breq, bw0, bcalls, bnextErr, bpayloads, bret>>
  /\ UNCHANGED <<built, sellerVars, loadVars>>

DownWrite(chunk) ==
  /\ Running
  /\ bdown' = Append(bdown, Call("Write", chunk))
  /\ IF bpc = "first"
       THEN /\ rec' = CaptureWrite(rec, <<chunk>>)
            /\ bw' = bw
       ELSE /\ bw' = WWrite(bw, <<chunk>>)
            /\ rec' = rec
  /\ UNCHANGED <<buyerCfg, bpc, breq, bw0, bcalls, bnextErr, bpayloads, bret>>
  /\ UNCHANGED <<built, sellerVars, loadVars>>

\* The first downstream call reads r.Body to its end.
DownReadBody ==
  /\ bpc = "first"
  /\ breq.Body # <<>>
  /\ breq' = [breq EXCEPT !.Body = <<>>]
  /\ UNCHANGED <<buyerCfg, bpc, bw0, bw, rec, bdown, bcalls, bnextErr, bpayloads,
                 bret>>
  /\ UNCHANGED <<built, sellerVars, loadVars>>

\* The first downstream call returns err; ServeHTTP runs up to its return or
\* up to the resubmission next.ServeHTTP(w, retryReq).
BuyerFirstReturn(err, now, signOk) ==
  /\ bpc = "first"
  /\ LET d == BuyerDecide(buyerCfg, rec, bw, breq, err, now, signOk)
     IN /\ bnextErr' = err
        /\ bw' = d.w
        /\ rec' = d.rec
        /\ bpayloads' = d.payloads
        /\ built' = built \o d.built
        /\ IF d.kind = "retry"
             THEN /\ bpc' = "retry"
                  /\ bcalls' = Append(bcalls, d.retry)
                  /\ bdown' = <<>>
                  /\ bret' = NotReturned
             ELSE /\ bpc' = "done"
                  /\ bcalls' = bcalls
                  /\ bdown' = bdown
                  /\ bret' = Returned(NoErr)
  /\ UNCHANGED <<buyerCfg, breq, bw0, sellerVars, loadVars>>

\* A slip: the resubmission repeated while attempts remain.
BuyerRetryReturnLooping(err) ==
  /\ bpc = "retry"
  /\ IF Len(bcalls) <= buyerCfg.MaxRetries
       THEN /\ bpc' = "retry"
            /\ bcalls' = Append(bcalls, bcalls[Len(bcalls)])
            /\ bdown' = <<>>
            /\ bret' = NotReturned
       ELSE /\ bpc' = "done"
            /\ bcalls' = bcalls
            /\ bdown' = bdown
            /\ bret' = Returned(err)
  /\ UNCHANGED <<buyerCfg, breq, bw0, bw, rec, bnextErr, bpayloads, built,
                 sellerVars, loadVars>>

\* The resubmission returns: ServeHTTP returns what it returned.
BuyerRetryReturn(err) ==
  /\ bpc = "retry"
  /\ bpc' = "done"
  /\ bret' = Returned(err)
  /\ UNCHANGED <<buyerCfg, breq, bw0, bw, rec, bdown, bcalls, bnextErr,
                 bpayloads, built, sellerVars, loadVars>>

(***************************************************************************)
(* The buyer's specification.                                              *)
(***************************************************************************)
SellerOff ==
  /\ facilitator = NilFac
  /\ appState = "off"
  /\ sellerCfg \in {m \in SellerConfigs : Validate(m) = NoErr /\ m.Network = "localhost"
                                          /\ m.MaxAmountRequired = Str1000000}
  /\ spc = [r \in SReqs |-> "off"]
  /\ sreq = [r \in SReqs |-> None]
  /\ sw = [r \in SReqs |-> NewWriter(EmptyHdr)]
  /\ sfac = [r \in SReqs |-> None]
  /\ sverifyReq = [r \in SReqs |-> None]
  /\ strace = [r \in SReqs |-> <<>>]
  /\ sverify = [r \in SReqs |-> None]
  /\ ssettle = [r \in SReqs |-> None]
  /\ sret = [r \in SReqs |-> NotReturned]

InitBuyer ==
  /\ SellerOff
  /\ buyerCfg \in BuyerConfigs
  /\ bpc = "unprovisioned"
  /\ breq = None
  /\ bw0 = NewWriter(EmptyHdr)
  /\ bw = NewWriter(EmptyHdr)
  /\ rec = None
  /\ bdown = <<>>
  /\ bcalls = <<>>
  /\ bnextErr = NoErr
  /\ bpayloads = <<>>
  /\ bret = NotReturned
  /\ built = <<>>
  /\ LoadOff

NextBuyer ==
  \/ BuyerProvision
  \/ \E req \in BuyerRequests : BuyerArrive(req)
  \/ DownSetHeader
  \/ DownDelHeader
  \/ \E statusCode \in BuyerStatuses : DownWriteHeader(statusCode)
  \/ \E chunk \in BuyerChunks : DownWrite(chunk)
  \/ DownReadBody
  \/ \E err \in BuyerNextErrors : \E now \in Nows : \E signOk \in BOOLEAN :
        BuyerFirstReturn(err, now, signOk)
  \/ \E err \in BuyerNextErrors : BuyerRetryReturn(err)

SpecBuyer == InitBuyer /\ [][NextBuyer]_vars

(***************************************************************************)
(* createPaymentPayload as the concurrent requests of one provisioned      *)
(* buyer call it, each for the challenge it captured.                      *)
(***************************************************************************)
\* The requirements of the challenges.
BuildRequirements ==
  [scheme : {"exact"}, network : {"localhost"}, resource : {"premium-data-api"},
   description : {""}, payTo : {"0xABC", "0xDEF"},
   maxAmountRequired : {Str500000, Str1000000}]

InitPayloads ==
  /\ SellerOff
  /\ buyerCfg \in {Provision(c).m : c \in {d \in BuyerConfigs : Provision(d).err = NoErr}}
  /\ bpc = "idle"
  /\ breq = None
  /\ bw0 = NewWriter(EmptyHdr)
  /\ bw = NewWriter(EmptyHdr)
  /\ rec = None
  /\ bdown = <<>>
  /\ bcalls = <<>>
  /\ bnextErr = NoErr
  /\ bpayloads = <<>>
  /\ bret = NotReturned
  /\ built = <<>>
  /\ LoadOff

CreatePayload(requirements, now, signOk) ==
  /\ bpc = "idle"
  /\ Len(built) < MaxBuilds
  /\ LET created == createPaymentPayload(buyerCfg, requirements, now, signOk)
     IN /\ built' = Append(built, [now |-> now, requirements |-> requirements,
                                   err |-> created.err,
                                   payload |-> created.payload])
        /\ bpayloads' = IF created.err = NoErr
                          THEN Append(bpayloads, created.payload)
                          ELSE bpayloads
  /\ UNCHANGED <<buyerCfg, bpc, breq, bw0, bw, rec, bdown, bcalls, bnextErr, bret,
                 sellerVars, loadVars>>

NextPayloads ==
  \E requirements \in BuildRequirements : \E now \in Nows :
    \E signOk \in BOOLEAN : CreatePayload(requirements, now, signOk)

SpecPayloads == InitPayloads /\ [][NextPayloads]_vars

(***************************************************************************)
(* The process adapting Caddyfiles, the interceptors idle.                 *)
(***************************************************************************)
InitLoad ==
  /\ SellerOff
  /\ BuyerOff
  /\ globalChainNetworks = <<>>
  /\ lpc = "idle"
  /\ caddyfile = <<>>
  /\ parsed = 0
  /\ appChainNetworks = None
  /\ served = None
  /\ loads = 0

NextLoad ==
  \/ \E c \in Caddyfiles : BeginAdapt(c)
  \/ parseChainNetworkGlobal
  \/ parseX402Facilitator
  \/ FinishAdapt

SpecLoad == InitLoad /\ [][NextLoad]_vars

(***************************************************************************)
(* The buyer in front of the seller: the handler the buyer calls is the    *)
(* seller, first with the capturing writer, then, for the resubmission,    *)
(* with the caller's writer.                                               *)
(***************************************************************************)
\* The writer the seller is given in the buyer's call number r.
CallOf(r) == IF r = 1 THEN "first" ELSE "retry"

\* What the seller and the handler behind it did to their writer, done to
\* the capture: Header().Set, WriteHeader, Write.
ThroughCapture(s, r, w) ==
  LET r0 == IF \E k \in HeaderKeys : s.hdr[k] # Absent THEN CaptureHeader(r, w) ELSE r
      r1 == [r0 EXCEPT !.headers = [k \in HeaderKeys |->
                                      IF s.hdr[k] # Absent THEN s.hdr[k] ELSE @[k]]]
      r2 == IF s.status # 0 THEN CaptureWriteHeader(r1, s.status) ELSE r1
  IN IF s.body # <<>> THEN CaptureWrite(r2, s.body) ELSE r2

\* The same, done to the caller's writer.
ThroughWriter(s, w) ==
  LET w1 == [w EXCEPT !.hdr = [k \in HeaderKeys |->
                                 IF s.hdr[k] # Absent THEN s.hdr[k] ELSE @[k]]]
      w2 == IF s.status # 0 THEN WWriteHeader(w1, s.status) ELSE w1
  IN IF s.body # <<>> THEN WWrite(w2, s.body) ELSE w2

InitChain ==
  /\ facilitator = NilFac
  /\ appState = "provisioned"
  /\ sellerCfg \in {m \in SellerConfigs : Validate(m) = NoErr}
  /\ spc = [r \in SReqs |-> "idle"]
  /\ sreq = [r \in SReqs |-> None]
  /\ sw = [r \in SReqs |-> NewWriter(EmptyHdr)]
  /\ sfac = [r \in SReqs |-> None]
  /\ sverifyReq = [r \in SReqs |-> None]
  /\ strace = [r \in SReqs |-> <<>>]
  /\ sverify = [r \in SReqs |-> None]
  /\ ssettle = [r \in SReqs |-> None]
  /\ sret = [r \in SReqs |-> NotReturned]
  /\ buyerCfg \in BuyerConfigs
  /\ bpc = "unprovisioned"
  /\ breq = None
  /\ bw0 = NewWriter(EmptyHdr)
  /\ bw = NewWriter(EmptyHdr)
  /\ rec = None
  /\ bdown = <<>>
  /\ bcalls = <<>>
  /\ bnextErr = NoErr
  /\ bpayloads = <<>>
  /\ bret = NotReturned
  /\ built = <<>>
  /\ LoadOff

\* next.ServeHTTP: the buyer's call number r enters the seller with the
\* request the buyer passes.
BuyerCallsSeller(r) ==
  /\ bpc = CallOf(r)
  /\ Len(bcalls) = r
  /\ SellerArrive(r, HeaderGet(bcalls[r]))

\* A slip: the resubmission given the capturing writer as well.
CapturedCallAlways(r) == TRUE

\* The call made with the capturing writer: next.ServeHTTP(rec, r); the
\* resubmission is next.ServeHTTP(w, retryReq).
CapturedCall(r) == r = 1

\* The seller's ServeHTTP returns to the buyer: what it wrote is on the
\* writer the buyer gave it.
SellerReturnsToBuyer(r) ==
  /\ bpc = CallOf(r)
  /\ spc[r] = "done"
  /\ spc' = [spc EXCEPT ![r] = "returned"]
  /\ IF CapturedCall(r)
       THEN /\ rec' = ThroughCapture(sw[r], rec, bw)
            /\ bw' = bw
       ELSE /\ bw' = ThroughWriter(sw[r], bw)
            /\ rec' = rec
  /\ UNCHANGED <<facilitator, appState, sellerCfg, sreq, sw, sfac, sverifyReq,
                 strace, sverify, ssettle, sret>>
  /\ UNCHANGED <<buyerCfg, bpc, breq, bw0, bdown, bcalls, bnextErr, bpayloads,
                 bret, built, loadVars>>

\* The buyer goes on with the error the seller returned.
ChainFirstReturn(now, signOk) ==
  /\ spc[1] = "returned"
  /\ BuyerFirstReturn(sret[1].err, now, signOk)

ChainRetryReturn ==
  /\ Len(bcalls) = 2
  /\ spc[2] = "returned"
  /\ BuyerRetryReturn(sret[2].err)

ChainCalls == {1, 2}

NextChain ==
  \/ \E newOk \in BOOLEAN : Start(newOk)
  \/ StoreFacilitator
  \/ Stop
  \/ BuyerProvision
  \/ \E req \in BuyerRequests : BuyerArrive(req)
  \/ \E r \in ChainCalls : BuyerCallsSeller(r)
  \/ \E r \in ChainCalls : SellerServe(r)
  \/ \E r \in ChainCalls : \E resp \in VerifyResponses : SellerVerifyReturn(r, resp)
  \/ \E r \in ChainCalls : \E resp \in SettleResponses : SellerSettleReturn(r, resp)
  \/ \E r \in ChainCalls : \E resp \in DownstreamResponses :
        \E err \in DownstreamErrors : SellerNextReturn(r, resp, err)
  \/ \E r \in ChainCalls : SellerReturnsToBuyer(r)
  \/ \E now \in Nows : \E signOk \in BOOLEAN : ChainFirstReturn(now, signOk)
  \/ ChainRetryReturn

SpecChain == InitChain /\ [][NextChain]_vars

(***************************************************************************)
(* Either interceptor, run on its own.                                     *)
(***************************************************************************)
InitInterceptors == InitSeller \/ InitBuyer

NextInterceptors == NextSeller \/ NextBuyer

SpecInterceptors == InitInterceptors /\ [][NextInterceptors]_vars

(***************************************************************************)
(* Properties of the buyer.                                                *)
(***************************************************************************)
\* The first downstream call has returned.
FirstReturned == bpc \in {"retry", "done"}

\* C8 as stated: when the first downstream call completes with a captured
\* status other than 402, the caller receives exactly the captured status,
\* headers and body, the downstream was invoked exactly once, and no payment
\* payload was built.
C8_Original ==
  (FirstReturned /\ rec.statusCode # StatusPaymentRequired) =>
    /\ Received(bw) = [status |-> rec.statusCode, headers |-> rec.headers,
                       body |-> rec.body]
    /\ Len(bcalls) = 1
    /\ bpayloads = <<>>

\* The first downstream call returned without error, having written a 402
\* whose body decodes to requirements of an amount above a ceiling that is
\* greater than 0.
OverCeiling ==
  /\ FirstReturned
  /\ bnextErr = NoErr
  /\ rec.statusCode = StatusPaymentRequired
  /\ UnmarshalChallenge(rec.body).err = NoErr
  /\ buyerCfg.parsedMaxAmountPay > 0
  /\ LET requiredAmount ==
           ParseInt(UnmarshalChallenge(rec.body).PaymentRequirements.maxAmountRequired)
     IN ~requiredAmount.err /\ requiredAmount.val > buyerCfg.parsedMaxAmountPay

ApplyOp(w, op) ==
  CASE op.call = "Header.Set" -> WSetHeader(w, op.arg, "1")
    [] op.call = "Header.Del" -> WDelHeader(w, op.arg)
    [] op.call = "WriteHeader" -> WWriteHeader(w, op.arg)
    [] op.call = "Write" -> WWrite(w, <<op.arg>>)
    [] OTHER -> w

RECURSIVE ApplyOps(_, _)
ApplyOps(w, ops) ==
  IF ops = <<>> THEN w ELSE ApplyOps(ApplyOp(w, Head(ops)), Tail(ops))

\* C10: for every max_retries, the downstream is invoked at most twice and at
\* most one payment payload is built; the resubmission carries that payload,
\* and what the resubmission's handler does reaches the caller's writer as
\* it does it, a second 402 included, with no further payment.
C10_AtMostOneResubmission ==
  /\ Len(bcalls) <= 2
  /\ Len(bpayloads) <= 1
  /\ Len(bcalls) = 2 =>
       /\ Len(bpayloads) = 1
       /\ bcalls[2].XPayment = EncodeJSON(bpayloads[1])
       /\ bw = ApplyOps(bw0, bdown)

C10_Witness ==
  /\ bpc = "done"
  /\ buyerCfg.MaxRetries = 3
  /\ Len(bcalls) = 2
  /\ Len(bpayloads) = 1
  /\ Received(bw) = [status |-> StatusPaymentRequired, headers |-> ServerHdr,
                     body |-> <<ChallengeDoc(Str1000000)>>]

\* C11 as stated: the resubmitted request equals the original request in
\* method, URL and body, the body as it was before the first downstream call
\* read it, and differs only by the X-Payment header, the JSON text of the
\* payload.
C11_Original ==
  Len(bcalls) = 2 =>
    bcalls[2] = [bcalls[1] EXCEPT !.XPayment = EncodeJSON(bpayloads[1])]

\* The headers, status and body the first downstream call left in rec.
Captured ==
  [status |-> rec.statusCode, headers |-> CaptureHeader(rec, bw0).headers,
   body |-> rec.body]

\* The captured body does not yield usable payment requirements: it is not
\* JSON, it holds no paymentRequirements object, or its maxAmountRequired is
\* not an integer.
Unusable ==
  \/ UnmarshalChallenge(rec.body).err # NoErr
  \/ "paymentRequirements" \notin DOMAIN rec.body[1].obj
  \/ ParseInt(UnmarshalChallenge(rec.body).PaymentRequirements.maxAmountRequired).err

\* C12 as stated: whenever the captured 402 does not yield usable payment
\* requirements, the caller receives the captured 402 verbatim and no
\* resubmission happens.
C12_Original ==
  (FirstReturned /\ rec.statusCode = StatusPaymentRequired /\ Unusable) =>
    /\ Received(bw) = Captured
    /\ Len(bcalls) = 1

\* The first downstream call returned a 402 challenge without error, and
\* ServeHTTP went on to build and submit a payment.
PayAttempted ==
  /\ FirstReturned
  /\ bnextErr = NoErr
  /\ rec.statusCode = StatusPaymentRequired
  /\ UnmarshalChallenge(rec.body).err = NoErr
  /\ LET requiredAmount ==
           ParseInt(UnmarshalChallenge(rec.body).PaymentRequirements.maxAmountRequired)
     IN buyerCfg.parsedMaxAmountPay > 0 =>
          ~requiredAmount.err /\ requiredAmount.val <= buyerCfg.parsedMaxAmountPay

\* C13 as stated: whenever building, serializing or submitting the payment
\* fails, so that no resubmission is made, the caller receives the captured
\* 402 challenge unmodified.
C13_Original ==
  (PayAttempted /\ Len(bcalls) = 1) => Received(bw) = Captured

\* C14: if the first downstream call returns an error, then whatever the
\* captured status, a 402 included, no payment payload is built, no
\* resubmission is made, and the captured status, headers and body are
\* written to the caller.
C14_TransportErrorFlushes ==
  (FirstReturned /\ bnextErr # NoErr) =>
    /\ bpc = "done"
    /\ bpayloads = <<>>
    /\ Len(bcalls) = 1
    /\ bw.status = rec.statusCode
    /\ bw.body = rec.body
    /\ \A k \in HeaderKeys :
         rec.headers[k] # Absent => bw.sentHdr[k] = rec.headers[k]

C14_Witness ==
  /\ bpc = "done"
  /\ bnextErr # NoErr
  /\ Received(bw) = [status |-> StatusPaymentRequired, headers |-> ServerHdr,
                     body |-> <<ChallengeDoc(Str1000000)>>]
  /\ ~ParseInt(buyerCfg.MaxAmountPay).err

\* C15 as stated: an error returned by the first downstream call is what
\* the buyer's handler returns.  (The resubmission is a tail call, what it
\* returns is what the handler returns.)
C15_Original ==
  (bpc = "done" /\ bnextErr # NoErr) => bret = Returned(bnextErr)

\* C16: while the first downstream call runs, nothing has reached the real
\* response writer, its header map included; and on the paying path the
\* writer holds only what the resubmission's handler did to it, never the
\* captured challenge, so the caller receives one response.
C16_NothingLeaksBeforeDecision ==
  /\ bpc = "first" => bw = bw0
  /\ bpc = "retry" => (rec.statusCode = StatusPaymentRequired
                       /\ bw = ApplyOps(bw0, bdown))
  /\ (bpc = "retry" /\ bdown = <<>>) => Untouched(bw, bw0.hdr)

C16_Witness ==
  /\ bpc = "retry"
  /\ bdown = <<>>
  /\ rec.written
  /\ rec.body = <<ChallengeDoc(Str1000000)>>
  /\ Untouched(bw, ServerHdr)

\* The seller answered request r itself: it returned without calling the
\* downstream handler.
SellerRejected(r) == spc[r] = "done" /\ Calls(r, "next") = 0

\* The buyer answered with a response of its own making.
BuyerRejected ==
  /\ bpc = "done"
  /\ Len(bcalls) = 1
  /\ bnextErr = NoErr
  /\ rec.statusCode = StatusPaymentRequired
  /\ UnmarshalChallenge(rec.body).err = NoErr

\* The caller has received a JSON body whose code field is the status
\* written, one of 402, 400 and 500.
CodedAnswer(w) ==
  /\ w.status \in {StatusPaymentRequired, StatusBadRequest,
                   StatusInternalServerError}
  /\ w.sentHdr["Content-Type"] = "application/json"
  /\ BodyObject(w) # None
  /\ {"error", "message", "code"} \subseteq DOMAIN BodyObject(w)
  /\ BodyObject(w).code = w.status

\* C17: every rejection the seller or the buyer produces is a JSON error
\* body whose code field equals the status written, 402, 400 or 500, and the
\* handler returns no error.
C17_RejectionsCoded ==
  /\ \A r \in SReqs :
       SellerRejected(r) => CodedAnswer(sw[r]) /\ sret[r] = Returned(NoErr)
  /\ BuyerRejected => CodedAnswer(bw) /\ bret = Returned(NoErr)

C17_Witness ==
  /\ BuyerRejected
  /\ bw.status = StatusBadRequest
  /\ BodyObject(bw).error = "invalid_payment_requirements"
  /\ BodyObject(bw).code = StatusBadRequest

(***************************************************************************)
(* The seller in front of a facilitator that settles a (payer, nonce) pair *)
(* successfully at most once.                                              *)
(***************************************************************************)
\* The pair that request r asked the facilitator to settle.
PayerNonce(r) ==
  <<sverifyReq[r].PaymentPayload.payer, sverifyReq[r].PaymentPayload.nonce>>

\* Another request's settlement of r's pair has succeeded.
SettledBefore(r) ==
  \E r2 \in SReqs \ {r} :
    /\ ssettle[r2] # None
    /\ ssettle[r2].err = NoErr
    /\ ssettle[r2].Success
    /\ PayerNonce(r2) = PayerNonce(r)

\* The answers such a facilitator can give to r's Settle.
SettleOnce(r, resp) == (resp.err = NoErr /\ resp.Success) => ~SettledBefore(r)

NextSellerSettleOnce ==
  \/ \E newOk \in BOOLEAN : Start(newOk)
  \/ StoreFacilitator
  \/ Stop
  \/ \E r \in SReqs : \E h \in PaymentHeaders : SellerArrive(r, h)
  \/ \E r \in SReqs : SellerServe(r)
  \/ \E r \in SReqs : \E resp \in VerifyResponses : SellerVerifyReturn(r, resp)
  \/ \E r \in SReqs : \E resp \in SettleResponses :
        spc[r] = "settling" /\ SettleOnce(r, resp) /\ SellerSettleReturn(r, resp)
  \/ \E r \in SReqs : \E resp \in DownstreamResponses :
        \E err \in DownstreamErrors : SellerNextReturn(r, resp, err)

SpecSellerSettleOnce == InitSeller /\ [][NextSellerSettleOnce]_vars

\* Requests r1 and r2 carry the same payment payload, one that decodes.
SamePayload(r1, r2) ==
  /\ sreq[r1] # None
  /\ sreq[r2] # None
  /\ HeaderGet(sreq[r1]) = HeaderGet(sreq[r2])
  /\ HeaderGet(sreq[r1]) # Empty
  /\ UnmarshalPayload(HeaderGet(sreq[r1])).err = NoErr

\* C18: with a facilitator that never settles the same (payer, nonce) pair
\* successfully twice, of the concurrent seller requests that carry the same
\* payment payload at most one is forwarded to the downstream handler, in
\* every interleaving.
C18_AtMostOneForwarded ==
  \A r1, r2 \in SReqs :
    (r1 # r2 /\ SamePayload(r1, r2)) =>
      ~(Calls(r1, "next") >= 1 /\ Calls(r2, "next") >= 1)

\* Two requests with the same payload both passed Verify; one was forwarded,
\* the other's settlement failed and it was rejected.
C18_Witness ==
  \E r1, r2 \in SReqs :
    /\ r1 # r2
    /\ SamePayload(r1, r2)
    /\ VerifyValid(r1) /\ VerifyValid(r2)
    /\ Calls(r1, "next") = 1
    /\ spc[r2] = "done"
    /\ ssettle[r2] # None
    /\ ~SettleSuccess(r2)
    /\ Calls(r2, "next") = 0

\* The calls of createPaymentPayload that returned a payload.
Built == {i \in 1..Len(built) : built[i].err = NoErr}

\* C19: the nonce is a function of the second, the payer's address and the
\* recipient only: two payloads that one buyer builds for the same payTo in
\* the same second carry the same nonce, whatever else the requirements
\* hold, and each of them is kept: the buyer drops none as a duplicate.
C19_NonceOfSecondPayerRecipient ==
  /\ \A i \in Built :
       built[i].payload.nonce =
         Nonce(built[i].now, WalletAddress(buyerCfg.privateKey),
               built[i].requirements.payTo)
  /\ \A i, j \in Built :
       (built[i].now = built[j].now
        /\ built[i].requirements.payTo = built[j].requirements.payTo) =>
         built[i].payload.nonce = built[j].payload.nonce
  /\ Len(bpayloads) = Cardinality(Built)

C19_Witness ==
  /\ Built = {1, 2}
  /\ built[1].now = built[2].now
  /\ built[1].requirements.payTo = built[2].requirements.payTo
  /\ built[1].requirements.maxAmountRequired
       # built[2].requirements.maxAmountRequired
  /\ built[1].payload.nonce = built[2].payload.nonce
  /\ Len(bpayloads) = 2

\* The configuration names a configured chain network and a non-negative
\* integer amount.
ConfigBuildable(m) ==
  /\ m.Network \in ChainNetworks
  /\ ~ParseInt(m.MaxAmountRequired).err
  /\ ParseInt(m.MaxAmountRequired).val >= 0

\* The caller of r was told that the payment requirements could not be built.
ObservedBuildFailure(r) ==
  /\ BodyObject(sw[r]) # None
  /\ Contains(BodyObject(sw[r]).message, "create payment requirements failed: ")

\* C20 as stated: a seller whose network is not a configured chain network,
\* or whose max_amount_required is not a non-negative integer string, never
\* serves a request, and no request observes a failure to build the payment
\* requirements.
C20_Original ==
  \A r \in SReqs :
    /\ spc[r] \notin {"off", "idle"} => ConfigBuildable(sellerCfg)
    /\ ~ObservedBuildFailure(r)

\* The names of the chain_network options of a Caddyfile, in order.
ChainNetworkEntries(c) ==
  LET sel == SelectSeq(c, LAMBDA o : o.option = "chain_network")
  IN [i \in 1..Len(sel) |-> sel[i].name]

\* A Caddyfile has been adapted and none is being adapted.
Adapted == lpc = "idle" /\ loads > 0

\* C21 as stated: the accumulator is never changed once an app is serving,
\* and after every adaptation, a reload while serving included, the list
\* handed to the facilitator app is exactly the chain_network entries of the
\* Caddyfile adapted, none carried over and none missing.
C21_Original ==
  /\ [](Adapted => appChainNetworks = ChainNetworkEntries(caddyfile))
  /\ [][served # None => globalChainNetworks' = globalChainNetworks]_vars

\* The calls of one kind made over the buyer's calls of the seller.
ChainCallsOf(name) ==
  LET n(r) == Len(SelectSeq(strace[r], LAMBDA e : e.call = name))
  IN n(1) + n(2)

\* The facilitator accepted the payment of the buyer's call r: Verify said
\* valid and Settle said success.
Accepted(r) ==
  /\ sverify[r] # None /\ sverify[r].err = NoErr /\ sverify[r].IsValid
  /\ ssettle[r] # None /\ ssettle[r].err = NoErr /\ ssettle[r].Success

\* What the handler behind the seller answered in the buyer's call r.
DownstreamAnswer(r) ==
  LET e == SelectSeq(strace[r], LAMBDA x : x.call = "nextReturned")
  IN e[1].arg

\* C22: with the buyer in front of the seller, a request without X-Payment
\* whose payment the facilitator accepts ends with the caller holding the
\* response of the handler behind the seller, after exactly one Verify, one
\* Settle and one run of that handler.
C22_PaidRequestServed ==
  \A r \in ChainCalls :
    (bpc = "done" /\ HeaderGet(breq) = Empty /\ Accepted(r)) =>
      /\ Received(bw) = [status |-> DownstreamAnswer(r).resp.status,
                         headers |-> ServerHdr,
                         body |-> DownstreamAnswer(r).resp.body]
      /\ bret = Returned(DownstreamAnswer(r).err)
      /\ ChainCallsOf("verify") = 1
      /\ ChainCallsOf("settle") = 1
      /\ ChainCallsOf("next") = 1

C22_Witness ==
  /\ bpc = "done" /\ Accepted(2)
  /\ buyerCfg.parsedMaxAmountPay = 1000000
  /\ Received(bw).status = StatusOK /\ Received(bw).body = <<RawOK>>

\* The requirements of the seller's configuration: nothing of the request.
ConfiguredRequirements(m) ==
  [scheme |-> m.Scheme, network |-> m.Network, resource |-> m.Resource,
   description |-> m.Description, payTo |-> m.PayTo,
   maxAmountRequired |-> m.MaxAmountRequired]

\* C23: within one seller request, Settle is called with exactly the payload
\* and the requirements Verify was called with just before, the payload is
\* the one of the request's X-Payment header, and the requirements are those
\* of the seller's configuration.
C23_SettleWhatWasVerified ==
  \A r \in SReqs : \A i \in 1..Len(strace[r]) :
    strace[r][i].call = "settle" =>
      /\ i > 1
      /\ strace[r][i - 1] = Call("verify", strace[r][i].arg)
      /\ strace[r][i].arg.PaymentPayload = UnmarshalPayload(HeaderGet(sreq[r])).payload
      /\ strace[r][i].arg.PaymentRequirements = ConfiguredRequirements(sellerCfg)

C23_Witness ==
  \E r \in SReqs :
    /\ Calls(r, "settle") = 1
    /\ Calls(r, "verify") = 1
    /\ HeaderGet(sreq[r]) = EncodeJSON(GoodPayload)
    /\ spc[r] = "done"

\* C24: every payload built at the second now has validBefore = now + 300
\* and validAfter = now - 600000, so that validAfter < now < validBefore.
C24_ValidityWindow ==
  \A i \in Built :
    /\ built[i].payload.validBefore = built[i].now + 300
    /\ built[i].payload.validAfter = built[i].now - 600000
    /\ built[i].payload.validAfter < built[i].now
    /\ built[i].now < built[i].payload.validBefore

C24_Witness ==
  \E i \in Built :
    /\ built[i].now = 1700000001
    /\ built[i].payload.validAfter = 1699400001
    /\ built[i].payload.validBefore = 1700000301

\* The first downstream call returned a 402 without error whose body decodes
\* to requirements with an integer amount.
ChallengeWithAmount ==
  /\ FirstReturned
  /\ bnextErr = NoErr
  /\ rec.statusCode = StatusPaymentRequired
  /\ UnmarshalChallenge(rec.body).err = NoErr
  /\ ~ParseInt(UnmarshalChallenge(rec.body).PaymentRequirements.maxAmountRequired).err

RequiredAmount ==
  ParseInt(UnmarshalChallenge(rec.body).PaymentRequirements.maxAmountRequired).val

\* The caller has been refused because of the ceiling, nothing built.
RefusedByCap ==
  /\ ErrorAnswer(bw, "amount_limit_exceeded", StatusPaymentRequired)
  /\ built = <<>>

\* C25: a max_amount_pay that is not configured gives a ceiling of 1000000;
\* the ceiling is in force unless it parsed to 0 or less; a challenge of an
\* amount above a ceiling in force is refused, and every other one, the
\* amount equal to the ceiling included, proceeds to the building of a
\* payment.
C25_CapInForce ==
  /\ \A c \in BuyerConfigs :
       (c.MaxAmountPay = <<>> /\ Provision(c).err = NoErr) =>
         Provision(c).m.parsedMaxAmountPay = 1000000
  /\ ChallengeWithAmount =>
       IF buyerCfg.parsedMaxAmountPay > 0 /\ RequiredAmount > buyerCfg.parsedMaxAmountPay
         THEN RefusedByCap /\ bpc = "done" /\ Len(bcalls) = 1
         ELSE ~RefusedByCap /\ Len(built) = 1

\* The amount equals the default ceiling and the payment was submitted.
C25_Witness ==
  /\ ChallengeWithAmount
  /\ buyerCfg.MaxAmountPay = Str1000000
  /\ buyerCfg.parsedMaxAmountPay = 1000000
  /\ RequiredAmount = 1000000
  /\ Len(bcalls) = 2

\* The handler of r is over, by return or by panic, and the facilitator it
\* obtained was not an initialized one: nil, or the field half stored.
HandledUninitialized(r) ==
  /\ spc[r] \in {"done", "panicked"}
  /\ sfac[r] \in {NilFac, HalfStored}

\* C26 as stated: in any ordering of Start and the seller's handling, a
\* request handled while the facilitator is not initialized calls neither
\* Verify, Settle nor the next handler, and is answered with status 500 and
\* payment_failed if it has no X-Payment, with status 402 and payment_failed
\* if it has one.
C26_Original ==
  \A r \in SReqs :
    HandledUninitialized(r) =>
      /\ strace[r] = <<>>
      /\ IF HeaderGet(sreq[r]) = Empty
           THEN ErrorAnswer(sw[r], "payment_failed", StatusInternalServerError)
           ELSE ErrorAnswer(sw[r], "payment_failed", StatusPaymentRequired)

=============================================================================
